---- MODULE Spec2Model ----
(***************************************************************************)
(* Dual-store ranking engine of game-leaderboard-backend (src/src/app.ts). *)
(*                                                                         *)
(* app.ts holds three successive revisions of the server; the model takes  *)
(* the last definition of every route and job: POST /leaderboard/earn      *)
(* (651-680), POST /player/create (683-723), the weekly cron job           *)
(* (726-767), getTopRankingPlayers / getPlayerDetails / getSearchResults   *)
(* and GET /leaderboard/top-ranking-data (769-973).                        *)
(*                                                                         *)
(* Stores: the MySQL table players (Identity Store), the Redis sorted set  *)
(* game_leaderboard (Rank Store) and the Redis string                      *)
(* leaderboard_prize_pool (Prize Pool).  Every await of a handler is a     *)
(* suspension point, so every store access is one atomic step and the      *)
(* steps of concurrent handlers interleave freely.                         *)
(*                                                                         *)
(* Money: JavaScript numbers are doubles.  The model keeps money as a      *)
(* fixed-point integer count of 1/Scale units; a product with a rate is    *)
(* rounded down to that resolution.                                        *)
(***************************************************************************)
EXTENDS Integers, Sequences, FiniteSets, TLC

\* ------------------------------------------------------------- bounds
\* Fixed-point resolution: one money unit is Scale model units.
Scale == 1000
\* Number of POST /player/create requests (so at most MaxCreate players).
MaxCreate == 2
\* Number of POST /leaderboard/earn requests.
MaxEarn == 2
\* Number of cron firings.
MaxRuns == 2
\* Largest Rank Store a settlement run starts on in SpecSettle (one more than
\* the job's top-100 window).
MaxRanked == 101
\* Players registered in SpecQuery, and the most a query matches there.
MaxListed == 6
MaxMatch == 2
\* Players registered in SpecEarn.
MaxEarners == 11

Units(n) == n * Scale

CreateReqs == 1..MaxCreate
EarnReqs == 1..MaxEarn
Runs == 1..MaxRuns

\* A (name, country, countryCode) triple; names, countries and codes are
\* numbered, 0 being a missing or blank string.
Triple(name, country, countryCode) ==
  [name |-> name, country |-> country, countryCode |-> countryCode]
\* The triples a create request may carry; Blank fails the !name?.trim() test
\* and the other Blanks fail the tests of country and countryCode.
Blank == Triple(0, 1, 1)
Blanks == {Blank, Triple(1, 0, 1), Triple(1, 1, 0)}
Ada == Triple(1, 1, 1)
Triples == {Ada, Triple(2, 2, 2)}
\* Amounts an earn request may carry (typeof amount === "number"); the
\* handler does not range-check them.
Amounts == {Units(100), Units(0 - 50)}

VARIABLES
  players,                 \* MySQL table players: row i has id i
  game_leaderboard,        \* Redis sorted set: member id -> score
  leaderboard_prize_pool,  \* Redis string, as a number
  earn,                    \* POST /leaderboard/earn handlers
  create,                  \* POST /player/create handlers
  settle,                  \* cron job runs
  paid,                    \* history: rewards a run in progress has applied
  poolLedger,              \* history: incrByFloat amounts added minus balances
                           \* read by the runs that have reset the pool
  view                     \* GET /leaderboard/top-ranking-data handler
vars == <<players, game_leaderboard, leaderboard_prize_pool, earn, create,
          settle, paid, poolLedger, view>>

\* ------------------------------------------------- Redis sorted set
\* Decimal digits of a member string (ids are stored as id.toString()).
RECURSIVE Digits(_)
Digits(n) == IF n < 10 THEN <<n>> ELSE Append(Digits(n \div 10), n % 10)

\* Byte-wise (lexicographic) order of two member strings.
RECURSIVE LexLess(_, _)
LexLess(a, b) ==
  IF a = <<>> THEN b # <<>>
  ELSE IF b = <<>> THEN FALSE
  ELSE IF Head(a) # Head(b) THEN Head(a) < Head(b)
  ELSE LexLess(Tail(a), Tail(b))

\* x comes before y in the REV order: higher score first, equal scores by
\* descending member string.
Before(zset, x, y) ==
  \/ zset[x] > zset[y]
  \/ zset[x] = zset[y] /\ LexLess(Digits(y), Digits(x))

\* Mutant of zRevRank: the ascending rank (ZRANK).
zRank(zset, member) ==
  IF member \in DOMAIN zset
  THEN Cardinality({x \in DOMAIN zset : Before(zset, member, x)})
  ELSE 0 - 1

\* ZREVRANK: 0-based descending rank, or -1 for null.
zRevRank(zset, member) ==
  IF member \in DOMAIN zset
  THEN Cardinality({x \in DOMAIN zset : Before(zset, x, member)})
  ELSE 0 - 1

\* Mutant of zIncrBy: the increment replaces the score (a ZADD).
zIncrByAsSet(zset, increment, member) ==
  [x \in DOMAIN zset \cup {member} |->
     IF x = member THEN increment ELSE zset[x]]

\* ZINCRBY: adds to the member's score, creating it from 0.
zIncrBy(zset, increment, member) ==
  [x \in DOMAIN zset \cup {member} |->
     IF x = member
     THEN (IF member \in DOMAIN zset THEN zset[member] ELSE 0) + increment
     ELSE zset[x]]

\* ZADD: sets the member's score.
zAdd(zset, score, member) ==
  [x \in DOMAIN zset \cup {member} |-> IF x = member THEN score ELSE zset[x]]

\* ZRANGE start stop REV WITHSCORES with 0 <= stop: the members of ranks
\* start..stop, as {value, score} in rank order; a negative start counts from
\* the end of the set, and from its beginning if it reaches before that.
zRangeWithScores(zset, start, stop) ==
  LET n == Cardinality(DOMAIN zset)
      first == IF start >= 0 THEN start
               ELSE IF n + start > 0 THEN n + start ELSE 0
      last == IF stop < n - 1 THEN stop ELSE n - 1
      at(r) == CHOOSE x \in DOMAIN zset : zRevRank(zset, x) = r
      entry(member) == [value |-> member, score |-> zset[member]]
  IN  [k \in 1..(last - first + 1) |-> entry(at(first + k - 1))]

\* ----------------------------------------------------------- initial
NoEarn == [pc |-> "idle", playerId |-> 0, isNumber |-> FALSE, amount |-> 0,
           status |-> 0, message |-> 0, zIncrByApplied |-> FALSE]
NoCreate == [pc |-> "idle", triple |-> Blank, playerId |-> 0, status |-> 0]
NoRun == [pc |-> "idle", prizePool |-> 0, leaderboard |-> <<>>, i |-> 0,
          remainingPrize |-> 0]
\* query: whether req.query.query is given, and the names that contain it
\* (name LIKE %query%).  sr: the callbacks of getSearchResults, one per
\* filtered player.
NoView == [pc |-> "idle", query |-> [given |-> FALSE, names |-> {}],
           leaderboard |-> <<>>, topRankingPlayers |-> <<>>, players |-> {},
           rank |-> <<>>, filteredPlayers |-> <<>>, includedPlayerIds |-> {},
           sr |-> <<>>, searchResults |-> <<>>, status |-> 0, call |-> 0]

Init ==
  /\ players = <<>>
  /\ game_leaderboard = <<>>
  /\ leaderboard_prize_pool = 0
  /\ earn = [r \in EarnReqs |-> NoEarn]
  /\ create = [c \in CreateReqs |-> NoCreate]
  /\ settle = [s \in Runs |-> NoRun]
  /\ paid = [s \in Runs |-> <<>>]
  /\ poolLedger = 0
  /\ view = NoView

\* Request slots are taken in order (slots are interchangeable).
Free(f, k) == f[k].pc = "idle" /\ (IF k = 1 THEN TRUE ELSE f[k - 1].pc # "idle")

\* The callback of the cron job has been called and has not returned.
Running(s) == settle[s].pc \notin {"idle", "done", "failed"}

\* ------------------------------------------- POST /leaderboard/earn
\* amount * 0.02
Contribution(amount) == (amount * 2) \div 100

\* SELECT id FROM players WHERE id = ?
PlayerExists(playerId) == playerId \in 1..Len(players)

\* res.status(...).json(...): the response leaves and the handler is over.
EarnDone(status) == [NoEarn EXCEPT !.pc = "done", !.status = status]

\* Lines 651-653: a request arrives and its body is read (an amount that is
\* no number has no value).
EarnStart(r, playerId, isNumber, amount) ==
  /\ Free(earn, r)
  /\ earn' = [earn EXCEPT ![r] =
       [NoEarn EXCEPT !.pc = "received", !.playerId = playerId,
                      !.isNumber = isNumber,
                      !.amount = IF isNumber THEN amount ELSE 0]]
  /\ UNCHANGED <<players, game_leaderboard, leaderboard_prize_pool, create,
                 settle, paid, poolLedger, view>>

\* Mutant of EarnQuery: no SELECT, every well-formed request goes on to write.
EarnQueryUnchecked(r) ==
  /\ earn[r].pc = "received"
  /\ earn' = [earn EXCEPT ![r] =
       IF earn[r].playerId = 0 \/ ~earn[r].isNumber THEN EarnDone(400)
       ELSE [@ EXCEPT !.pc = "zIncrBy"]]
  /\ UNCHANGED <<players, game_leaderboard, leaderboard_prize_pool, create,
                 settle, paid, poolLedger, view>>

\* Mutant of EarnQuery: the SELECT runs before the body is validated.
EarnQuerySelectFirst(r) ==
  /\ earn[r].pc = "received"
  /\ earn' = [earn EXCEPT ![r] =
       IF ~PlayerExists(earn[r].playerId) THEN EarnDone(404)
       ELSE IF earn[r].playerId = 0 \/ ~earn[r].isNumber THEN EarnDone(400)
       ELSE [@ EXCEPT !.pc = "zIncrBy"]]
  /\ UNCHANGED <<players, game_leaderboard, leaderboard_prize_pool, create,
                 settle, paid, poolLedger, view>>

\* Lines 654-666: a falsy playerId or a non-number amount is answered 400
\* with no store access; otherwise the SELECT runs and an empty result is
\* answered 404.
EarnQuery(r) ==
  /\ earn[r].pc = "received"
  /\ earn' = [earn EXCEPT ![r] =
       IF earn[r].playerId = 0 \/ ~earn[r].isNumber THEN EarnDone(400)
       ELSE IF ~PlayerExists(earn[r].playerId) THEN EarnDone(404)
       ELSE [@ EXCEPT !.pc = "zIncrBy"]]
  /\ UNCHANGED <<players, game_leaderboard, leaderboard_prize_pool, create,
                 settle, paid, poolLedger, view>>

\* Line 668.
EarnZIncrBy(r) ==
  /\ earn[r].pc = "zIncrBy"
  /\ game_leaderboard' =
       zIncrBy(game_leaderboard, earn[r].amount, earn[r].playerId)
  /\ earn' = [earn EXCEPT ![r].pc = "incrByFloat"]
  /\ UNCHANGED <<players, leaderboard_prize_pool, create, settle, paid,
                 poolLedger, view>>

\* Lines 669-670.
EarnIncrByFloat(r) ==
  /\ earn[r].pc = "incrByFloat"
  /\ leaderboard_prize_pool' =
       leaderboard_prize_pool + Contribution(earn[r].amount)
  /\ poolLedger' = poolLedger + Contribution(earn[r].amount)
  /\ earn' = [earn EXCEPT ![r] = EarnDone(200)]
  /\ UNCHANGED <<players, game_leaderboard, create, settle, paid, view>>

\* error.message of a rejected db.query, and of a rejected redisClient
\* command (the two commands of the handler go through the same client).
MySqlErrors == {1}
RedisErrors == {2, 3}

\* Lines 671-679: the store operation the handler is awaiting (the SELECT,
\* the zIncrBy or the incrByFloat) rejects without effect; the catch block
\* logs and answers 500 with "Error updating earnings: " + error.message.
\* zIncrByApplied (history) records that the zIncrBy had been applied.
EarnCatch(r, message) ==
  /\ \/ /\ earn[r].pc = "received"
        /\ earn[r].playerId # 0
        /\ earn[r].isNumber
        /\ message \in MySqlErrors
     \/ /\ earn[r].pc \in {"zIncrBy", "incrByFloat"}
        /\ message \in RedisErrors
  /\ earn' = [earn EXCEPT ![r] =
       [EarnDone(500) EXCEPT !.message = message,
                             !.zIncrByApplied = (earn[r].pc = "incrByFloat")]]
  /\ UNCHANGED <<players, game_leaderboard, leaderboard_prize_pool, create,
                 settle, paid, poolLedger, view>>

\* ---------------------------------------------- POST /player/create
CreateDone(status) == [NoCreate EXCEPT !.pc = "done", !.status = status]

\* SELECT id FROM players WHERE name = ? AND country = ? AND country_code = ?
ExistingPlayers(triple) == {i \in 1..Len(players) : players[i] = triple}

\* Lines 683-685: a request arrives and its body is read.
CreateStart(c, triple) ==
  /\ Free(create, c)
  /\ create' = [create EXCEPT ![c] =
       [NoCreate EXCEPT !.pc = "received", !.triple = triple]]
  /\ UNCHANGED <<players, game_leaderboard, leaderboard_prize_pool, earn,
                 settle, paid, poolLedger, view>>

\* Mutant of CreateCheck: no SELECT for an existing triple.
CreateCheckNoSelect(c) ==
  /\ create[c].pc = "received"
  /\ LET triple == create[c].triple
     IN  create' = [create EXCEPT ![c] =
           IF triple.name = 0 \/ triple.country = 0 \/ triple.countryCode = 0
           THEN CreateDone(400)
           ELSE [@ EXCEPT !.pc = "insert"]]
  /\ UNCHANGED <<players, game_leaderboard, leaderboard_prize_pool, earn,
                 settle, paid, poolLedger, view>>

\* Lines 686-698: a missing or blank field is answered 400; otherwise the
\* SELECT runs and a row with the same triple is answered 409.
CreateCheck(c) ==
  /\ create[c].pc = "received"
  /\ LET triple == create[c].triple
     IN  create' = [create EXCEPT ![c] =
           IF triple.name = 0 \/ triple.country = 0 \/ triple.countryCode = 0
           THEN CreateDone(400)
           ELSE IF ExistingPlayers(triple) # {} THEN CreateDone(409)
           ELSE [@ EXCEPT !.pc = "insert"]]
  /\ UNCHANGED <<players, game_leaderboard, leaderboard_prize_pool, earn,
                 settle, paid, poolLedger, view>>

\* Lines 701-706: AUTO_INCREMENT gives the new row the next id.
CreateInsert(c) ==
  /\ create[c].pc = "insert"
  /\ players' = Append(players, create[c].triple)
  /\ create' = [create EXCEPT ![c].pc = "zAdd",
                              ![c].playerId = Len(players) + 1]
  /\ UNCHANGED <<game_leaderboard, leaderboard_prize_pool, earn, settle, paid,
                 poolLedger, view>>

\* Mutant of CreateZAdd: 201 is answered with no ZADD.
CreateZAddSkipped(c) ==
  /\ create[c].pc = "zAdd"
  /\ create' = [create EXCEPT ![c] = CreateDone(201)]
  /\ UNCHANGED <<players, game_leaderboard, leaderboard_prize_pool, earn,
                 settle, paid, poolLedger, view>>

\* Lines 709-713.
CreateZAdd(c) ==
  /\ create[c].pc = "zAdd"
  /\ game_leaderboard' = zAdd(game_leaderboard, 0, create[c].playerId)
  /\ create' = [create EXCEPT ![c] = CreateDone(201)]
  /\ UNCHANGED <<players, leaderboard_prize_pool, earn, settle, paid,
                 poolLedger, view>>

\* ------------------------------------------------------- cron job
\* Lines 726-731: node-cron calls the callback at every tick of the schedule
\* and the callback keeps no record of a run in progress; the run reads the
\* pool balance.
CronFire(s) ==
  /\ Free(settle, s)
  /\ settle' = [settle EXCEPT ![s].pc = "zRange",
                              ![s].prizePool = leaderboard_prize_pool]
  /\ UNCHANGED <<players, game_leaderboard, leaderboard_prize_pool, earn,
                 create, paid, poolLedger, view>>

\* Lines 732-741.
SettleZRange(s) ==
  /\ settle[s].pc = "zRange"
  /\ LET leaderboard == zRangeWithScores(game_leaderboard, 0, 99)
     IN  settle' = [settle EXCEPT
           ![s].leaderboard = leaderboard,
           ![s].remainingPrize = settle[s].prizePool,
           ![s].pc = IF Len(leaderboard) > 0 THEN "loop" ELSE "set"]
  /\ UNCHANGED <<players, game_leaderboard, leaderboard_prize_pool, earn,
                 create, paid, poolLedger, view>>

\* const rewards = [0.2, 0.15, 0.1], in hundredths.
rewards == <<20, 15, 10>>

\* Mutant of Reward: the top three are paid from what remains, not from the
\* pool as read.
RewardOfRemaining(i, prizePool, remainingPrize) ==
  IF i < 3
  THEN (remainingPrize * rewards[i + 1]) \div 100
  ELSE (remainingPrize * 567) \div 100000

\* Mutant of Reward: below the top three every reward is 0.00567 of the pool
\* as read, not of what remains.
RewardFlat(i, prizePool, remainingPrize) ==
  IF i < 3
  THEN (prizePool * rewards[i + 1]) \div 100
  ELSE (prizePool * 567) \div 100000

\* Mutant of Reward: every position below the third is paid the third's share
\* of the pool as read.
RewardTenth(i, prizePool, remainingPrize) ==
  (prizePool * rewards[IF i < 3 THEN i + 1 ELSE 3]) \div 100

\* Lines 744-749: the reward of position i (0-based).
Reward(i, prizePool, remainingPrize) ==
  IF i < 3
  THEN (prizePool * rewards[i + 1]) \div 100
  ELSE (remainingPrize * 567) \div 100000

\* Mutant of Remaining: the reward is not taken off.
RemainingKept(remainingPrize, reward) == remainingPrize

\* Line 750.
Remaining(remainingPrize, reward) == remainingPrize - reward

\* Lines 743-757: one iteration of the loop.
SettleLoop(s) ==
  /\ settle[s].pc = "loop"
  /\ LET i == settle[s].i
         reward == Reward(i, settle[s].prizePool, settle[s].remainingPrize)
         value == settle[s].leaderboard[i + 1].value
     IN  /\ game_leaderboard' = zIncrBy(game_leaderboard, reward, value)
         /\ paid' = [paid EXCEPT ![s] =
                       Append(@, [value |-> value, reward |-> reward])]
         /\ settle' = [settle EXCEPT
              ![s].remainingPrize = Remaining(settle[s].remainingPrize, reward),
              ![s].i = i + 1,
              ![s].pc = IF i + 1 < Len(settle[s].leaderboard)
                        THEN "loop" ELSE "set"]
  /\ UNCHANGED <<players, leaderboard_prize_pool, earn, create, poolLedger, view>>

\* Mutant of SettleSet: the sorted set is deleted with the reset, as the job's
\* first revision did.
SettleSetAndDel(s) ==
  /\ settle[s].pc = "set"
  /\ leaderboard_prize_pool' = 0
  /\ game_leaderboard' = <<>>
  /\ poolLedger' = poolLedger - settle[s].prizePool
  /\ settle' = [settle EXCEPT ![s] = [NoRun EXCEPT !.pc = "done"]]
  /\ paid' = [paid EXCEPT ![s] = <<>>]
  /\ UNCHANGED <<players, earn, create, view>>

\* Lines 760-762: the pool is reset and the callback returns.
SettleSet(s) ==
  /\ settle[s].pc = "set"
  /\ leaderboard_prize_pool' = 0
  /\ poolLedger' = poolLedger - settle[s].prizePool
  /\ settle' = [settle EXCEPT ![s] = [NoRun EXCEPT !.pc = "done"]]
  /\ paid' = [paid EXCEPT ![s] = <<>>]
  /\ UNCHANGED <<players, game_leaderboard, earn, create, view>>

\* Mutant of SettleCatch: the catch block resets the pool.
SettleCatchAndReset(s) ==
  /\ settle[s].pc \in {"zRange", "loop", "set"}
  /\ settle' = [settle EXCEPT ![s].pc = "failed"]
  /\ leaderboard_prize_pool' = 0
  /\ UNCHANGED <<players, game_leaderboard, earn, create, paid, poolLedger,
                 view>>

\* Mutant of SettleCatch: the rejection is not caught and the callback never
\* returns.
SettleCatchHangs(s) ==
  /\ settle[s].pc \in {"zRange", "loop", "set"}
  /\ settle' = [settle EXCEPT ![s].pc = "hung"]
  /\ UNCHANGED <<players, game_leaderboard, leaderboard_prize_pool, earn,
                 create, paid, poolLedger, view>>

\* Lines 763-766: the store operation the run is awaiting (zRangeWithScores,
\* a zIncrBy of the loop, or the set) rejects without effect; the catch block
\* logs the error and the callback returns.
SettleCatch(s) ==
  /\ settle[s].pc \in {"zRange", "loop", "set"}
  /\ settle' = [settle EXCEPT ![s].pc = "failed"]
  /\ UNCHANGED <<players, game_leaderboard, leaderboard_prize_pool, earn,
                 create, paid, poolLedger, view>>

\* Lines 726-731 and 763-766: the callback is called and its first operation,
\* the get of the pool, rejects.
CronFireCatch(s) ==
  /\ Free(settle, s)
  /\ settle' = [settle EXCEPT ![s].pc = "failed"]
  /\ UNCHANGED <<players, game_leaderboard, leaderboard_prize_pool, earn,
                 create, paid, poolLedger, view>>

\* ------------------------------ GET /leaderboard/top-ranking-data
\* null, for a rank, a name, a country or a country code.
Null == 0 - 1

\* ZSCORE: the reply holds the member's score, or is null (empty).
zScore(zset, member) ==
  IF member \in DOMAIN zset THEN <<zset[member]>> ELSE <<>>

\* Number(score) of a ZSCORE reply: null becomes 0.
Number(score) == IF score = <<>> THEN 0 ELSE score[1]

\* Lines 800-826: getPlayerDetails.
getPlayerDetails(playerId) ==
  IF playerId \in 1..Len(players)
  THEN [name |-> players[playerId].name,
        country |-> players[playerId].country,
        country_code |-> players[playerId].countryCode]
  ELSE [name |-> Null, country |-> Null, country_code |-> Null]

\* An element of topRankingPlayers, prevPlayers or nextPlayers.
Listed(ranking, id, details, money) ==
  [ranking |-> ranking, id |-> id, playerName |-> details.name,
   country |-> details.country, countryCode |-> details.country_code,
   money |-> money]

\* Mutant of ViewStart: the range read is 0..100.
ViewStartWide(given, names) ==
  /\ view.pc = "idle"
  /\ view' = [NoView EXCEPT
       !.pc = "topSelect",
       !.query = [given |-> given, names |-> IF given THEN names ELSE {}],
       !.leaderboard = zRangeWithScores(game_leaderboard, 0, 100)]
  /\ UNCHANGED <<players, game_leaderboard, leaderboard_prize_pool, earn,
                 create, settle, paid, poolLedger>>

\* Lines 770-775: the request arrives and getTopRankingPlayers reads the top
\* 100.
ViewStart(given, names) ==
  /\ view.pc = "idle"
  /\ view' = [NoView EXCEPT
       !.pc = "topSelect",
       !.query = [given |-> given, names |-> IF given THEN names ELSE {}],
       !.leaderboard = zRangeWithScores(game_leaderboard, 0, 99)]
  /\ UNCHANGED <<players, game_leaderboard, leaderboard_prize_pool, earn,
                 create, settle, paid, poolLedger>>

\* Mutant of ViewTopSelect: a ranked id with no row fails the request.
ViewTopSelectStrict ==
  /\ view.pc = "topSelect"
  /\ LET leaderboard == view.leaderboard
         result == [k \in 1..Len(leaderboard) |->
                      Listed(k, leaderboard[k].value,
                             getPlayerDetails(leaderboard[k].value),
                             leaderboard[k].score)]
     IN  view' =
           IF \/ Len(leaderboard) = 0
              \/ \E k \in 1..Len(leaderboard) :
                   leaderboard[k].value \notin 1..Len(players)
           THEN [view EXCEPT !.pc = "done", !.status = 500]
           ELSE IF ~view.query.given
           THEN [view EXCEPT !.pc = "done", !.status = 200,
                             !.topRankingPlayers = result]
           ELSE [view EXCEPT !.pc = "like", !.topRankingPlayers = result]
  /\ UNCHANGED <<players, game_leaderboard, leaderboard_prize_pool, earn,
                 create, settle, paid, poolLedger>>

\* Lines 922-927 and 770-775: the client that has its answer sends the same
\* request again; call counts the requests answered before this one.
ViewRepeat ==
  /\ view.pc = "done"
  /\ view.call = 0
  /\ view' = [NoView EXCEPT
       !.pc = "topSelect",
       !.query = view.query,
       !.leaderboard = zRangeWithScores(game_leaderboard, 0, 99),
       !.call = 1]
  /\ UNCHANGED <<players, game_leaderboard, leaderboard_prize_pool, earn,
                 create, settle, paid, poolLedger>>

\* Lines 778-797 and 928: SELECT ... WHERE id IN (?) with the ids of the top
\* 100; an empty id list makes the statement IN (), which MySQL rejects, and
\* the route's catch answers 500.  Without a query the route answers here.
ViewTopSelect ==
  /\ view.pc = "topSelect"
  /\ LET leaderboard == view.leaderboard
         result == [k \in 1..Len(leaderboard) |->
                      Listed(k, leaderboard[k].value,
                             getPlayerDetails(leaderboard[k].value),
                             leaderboard[k].score)]
     IN  view' =
           IF Len(leaderboard) = 0
           THEN [view EXCEPT !.pc = "done", !.status = 500]
           ELSE IF ~view.query.given
           THEN [view EXCEPT !.pc = "done", !.status = 200,
                             !.topRankingPlayers = result]
           ELSE [view EXCEPT !.pc = "like", !.topRankingPlayers = result]
  /\ UNCHANGED <<players, game_leaderboard, leaderboard_prize_pool, earn,
                 create, settle, paid, poolLedger>>

\* Lines 930-936: SELECT ... WHERE name LIKE ?; the rows are kept by id.  With
\* no row the route answers.
ViewLike ==
  /\ view.pc = "like"
  /\ LET rows == {id \in 1..Len(players) :
                    players[id].name \in view.query.names}
     IN  view' = IF rows = {}
                 THEN [view EXCEPT !.pc = "done", !.status = 200]
                 ELSE [view EXCEPT !.pc = "ranks", !.players = rows]
  /\ UNCHANGED <<players, game_leaderboard, leaderboard_prize_pool, earn,
                 create, settle, paid, poolLedger>>

\* Lines 957-960: the players with a rank, sorted by rank (a stable sort of
\* the rows).
RECURSIVE SortedByRank(_, _)
SortedByRank(ids, rank) ==
  IF ids = {} THEN <<>>
  ELSE LET first == CHOOSE x \in ids :
                      \A y \in ids \ {x} :
                        rank[x] < rank[y] \/ (rank[x] = rank[y] /\ x < y)
       IN  <<first>> \o SortedByRank(ids \ {first}, rank)

\* A callback of getSearchResults that has just asked for the rank.
NoSr == [pc |-> "zRevRank", rank |-> Null, score |-> <<>>, startRank |-> 0,
         surroundingPlayers |-> <<>>, pending |-> {}, prevPlayers |-> <<>>,
         nextPlayers |-> <<>>]

\* Lines 938-956, then 957-962 and 829-837 when the last rank is in: the
\* ranks of the rows are read one by one; rows with no rank are dropped, the
\* rest are sorted, and getSearchResults starts one callback per player, each
\* entering its id in includedPlayerIds before it awaits.
ViewRank(id) ==
  /\ view.pc = "ranks"
  /\ id \in view.players \ DOMAIN view.rank
  /\ LET rank == [x \in DOMAIN view.rank \cup {id} |->
                    IF x = id THEN zRevRank(game_leaderboard, id)
                    ELSE view.rank[x]]
         filteredPlayers ==
           SortedByRank({x \in view.players : rank[x] # Null}, rank)
     IN  view' =
           IF DOMAIN rank # view.players
           THEN [view EXCEPT !.rank = rank]
           ELSE [view EXCEPT
                   !.pc = "search",
                   !.rank = rank,
                   !.filteredPlayers = filteredPlayers,
                   !.includedPlayerIds =
                      {filteredPlayers[j] : j \in 1..Len(filteredPlayers)},
                   !.sr = [j \in 1..Len(filteredPlayers) |-> NoSr]]
  /\ UNCHANGED <<players, game_leaderboard, leaderboard_prize_pool, earn,
                 create, settle, paid, poolLedger>>

\* Lines 834-837.
SrRank(j) ==
  /\ view.pc = "search"
  /\ j \in DOMAIN view.sr
  /\ view.sr[j].pc = "zRevRank"
  /\ view' = [view EXCEPT
       !.sr[j].pc = "zScore",
       !.sr[j].rank = zRevRank(game_leaderboard, view.filteredPlayers[j])]
  /\ UNCHANGED <<players, game_leaderboard, leaderboard_prize_pool, earn,
                 create, settle, paid, poolLedger>>

\* Mutant of SrScore: startRank is rank - 3 with no lower clamp, as in the
\* route's earlier revision.
SrScoreNoClamp(j) ==
  /\ view.pc = "search"
  /\ j \in DOMAIN view.sr
  /\ view.sr[j].pc = "zScore"
  /\ LET rank == view.sr[j].rank
         score == zScore(game_leaderboard, view.filteredPlayers[j])
     IN  view' =
           IF rank = Null
           THEN [view EXCEPT !.sr[j].pc = "null", !.sr[j].score = score]
           ELSE [view EXCEPT
                   !.sr[j].pc = "zRange",
                   !.sr[j].score = score,
                   !.sr[j].startRank = rank - 3]
  /\ UNCHANGED <<players, game_leaderboard, leaderboard_prize_pool, earn,
                 create, settle, paid, poolLedger>>

\* Lines 838-851: the score is read; a player with no rank is logged and its
\* callback returns null, otherwise the window is asked for.
SrScore(j) ==
  /\ view.pc = "search"
  /\ j \in DOMAIN view.sr
  /\ view.sr[j].pc = "zScore"
  /\ LET rank == view.sr[j].rank
         score == zScore(game_leaderboard, view.filteredPlayers[j])
     IN  view' =
           IF rank = Null
           THEN [view EXCEPT !.sr[j].pc = "null", !.sr[j].score = score]
           ELSE [view EXCEPT
                   !.sr[j].pc = "zRange",
                   !.sr[j].score = score,
                   !.sr[j].startRank = IF rank - 3 < 0 THEN 0 ELSE rank - 3]
  /\ UNCHANGED <<players, game_leaderboard, leaderboard_prize_pool, earn,
                 create, settle, paid, poolLedger>>

\* Lines 852-864: the window is read and one getPlayerDetails is asked per
\* entry.
SrRange(j) ==
  /\ view.pc = "search"
  /\ j \in DOMAIN view.sr
  /\ view.sr[j].pc = "zRange"
  /\ LET surroundingPlayers ==
           zRangeWithScores(game_leaderboard, view.sr[j].startRank,
                            view.sr[j].rank + 2)
     IN  view' = [view EXCEPT
           !.sr[j].pc = IF Len(surroundingPlayers) = 0 THEN "done"
                        ELSE "details",
           !.sr[j].surroundingPlayers = surroundingPlayers,
           !.sr[j].pending = 1..Len(surroundingPlayers)]
  /\ UNCHANGED <<players, game_leaderboard, leaderboard_prize_pool, earn,
                 create, settle, paid, poolLedger>>

\* Lines 864-903: one getPlayerDetails returns, in any order among the
\* window's entries (index is 1-based here); an entry with a null detail is
\* logged and left out (strict), and the entry is pushed to prevPlayers or
\* nextPlayers unless its id is in includedPlayerIds (dedupe).
Detail(j, index, dedupe, strict) ==
  /\ view.pc = "search"
  /\ j \in DOMAIN view.sr
  /\ view.sr[j].pc = "details"
  /\ index \in view.sr[j].pending
  /\ LET player == view.sr[j].surroundingPlayers[index]
         playerDetails == getPlayerDetails(player.value)
         position == view.sr[j].startRank + index - 1
         rank == view.sr[j].rank
         pending == view.sr[j].pending \ {index}
         corrupted == \/ playerDetails.name = Null
                      \/ playerDetails.country = Null
                      \/ playerDetails.country_code = Null
         push == /\ (strict => ~corrupted)
                 /\ position # rank
                 /\ (dedupe => player.value \notin view.includedPlayerIds)
         listed == Listed(position + 1, player.value, playerDetails,
                          player.score)
     IN  view' = [view EXCEPT
           !.sr[j].pending = pending,
           !.sr[j].pc = IF pending = {} THEN "done" ELSE "details",
           !.includedPlayerIds = IF push THEN @ \cup {player.value} ELSE @,
           !.sr[j].prevPlayers =
              IF push /\ position < rank THEN Append(@, listed) ELSE @,
           !.sr[j].nextPlayers =
              IF push /\ position > rank THEN Append(@, listed) ELSE @]
  /\ UNCHANGED <<players, game_leaderboard, leaderboard_prize_pool, earn,
                 create, settle, paid, poolLedger>>

\* Mutant of SrDetail: the window entries are pushed without the look-up in
\* includedPlayerIds, as in the route's earlier revision.
SrDetailNoDedupe(j, index) == Detail(j, index, FALSE, TRUE)

\* Mutant of SrDetail: a window entry with null details is pushed like the
\* others.
SrDetailLenient(j, index) == Detail(j, index, TRUE, FALSE)

\* Lines 864-903.
SrDetail(j, index) == Detail(j, index, TRUE, TRUE)

\* Lines 905-919: the results of the callbacks that did not return null, in
\* the order of the players.
RECURSIVE Results(_, _, _)
Results(filteredPlayers, sr, j) ==
  IF j > Len(filteredPlayers) THEN <<>>
  ELSE (IF sr[j].pc = "null" THEN <<>>
        ELSE <<[id |-> filteredPlayers[j],
                ranking |-> sr[j].rank + 1,
                playerName |-> players[filteredPlayers[j]].name,
                country |-> players[filteredPlayers[j]].country,
                countryCode |-> players[filteredPlayers[j]].countryCode,
                money |-> Number(sr[j].score),
                surroundingPlayers |->
                  [prevPlayers |-> sr[j].prevPlayers,
                   nextPlayers |-> sr[j].nextPlayers]]>>)
       \o Results(filteredPlayers, sr, j + 1)

\* Lines 919 and 962-964: every callback has returned and the route answers.
ViewRespond ==
  /\ view.pc = "search"
  /\ \A j \in DOMAIN view.sr : view.sr[j].pc \in {"null", "done"}
  /\ view' = [view EXCEPT
       !.pc = "done",
       !.status = 200,
       !.searchResults = Results(view.filteredPlayers, view.sr, 1)]
  /\ UNCHANGED <<players, game_leaderboard, leaderboard_prize_pool, earn,
                 create, settle, paid, poolLedger>>

\* ------------------------------------------------------------- Spec
\* The request handlers.
Requests ==
  \/ \E r \in EarnReqs, playerId \in 0..(MaxCreate + 1), isNumber \in BOOLEAN,
        amount \in Amounts : EarnStart(r, playerId, isNumber, amount)
  \/ \E r \in EarnReqs : EarnQuery(r)
  \/ \E r \in EarnReqs : EarnZIncrBy(r)
  \/ \E r \in EarnReqs : EarnIncrByFloat(r)
  \/ \E c \in CreateReqs, triple \in Triples \cup Blanks : CreateStart(c, triple)
  \/ \E c \in CreateReqs : CreateCheck(c)
  \/ \E c \in CreateReqs : CreateInsert(c)
  \/ \E c \in CreateReqs : CreateZAdd(c)

\* Spec: the server starts on empty stores; requests arrive and the cron
\* schedule ticks once.
Next ==
  \/ Requests
  \/ CronFire(1)
  \/ SettleZRange(1)
  \/ SettleLoop(1)
  \/ SettleSet(1)

Spec == Init /\ [][Next]_vars

\* SpecCron: as Spec with one earn request, and the schedule's next ticks
\* arriving whenever they do.
NextCron ==
  \/ \E playerId \in 0..(MaxCreate + 1), isNumber \in BOOLEAN,
        amount \in Amounts : EarnStart(1, playerId, isNumber, amount)
  \/ EarnQuery(1)
  \/ EarnZIncrBy(1)
  \/ EarnIncrByFloat(1)
  \/ \E c \in CreateReqs, triple \in Triples \cup Blanks : CreateStart(c, triple)
  \/ \E c \in CreateReqs : CreateCheck(c)
  \/ \E c \in CreateReqs : CreateInsert(c)
  \/ \E c \in CreateReqs : CreateZAdd(c)
  \/ \E s \in Runs : CronFire(s)
  \/ \E s \in Runs : SettleZRange(s)
  \/ \E s \in Runs : SettleLoop(s)
  \/ \E s \in Runs : SettleSet(s)

SpecCron == Init /\ [][NextCron]_vars

\* SpecSettle: one run of the job, with no request in progress, on stores
\* that hold n registered and ranked players and a pool balance.
SettleSizes == {0, 1, 2, 3, 5, MaxRanked}
SettlePools == {0, Units(2), Units(100), Units(0 - 1)}
\* Scores of n players: all different (player 1 first), all equal (the order
\* is that of the member strings), or 500 and 300 (n = 2).
Distinct(n) == [i \in 1..n |-> Units(100) * (n + 1 - i)]
Flat(n) == [i \in 1..n |-> Units(100)]
FiveThree == <<Units(500), Units(300)>>
SettleScores(n) ==
  {Distinct(n), Flat(n)} \cup (IF n = 2 THEN {FiveThree} ELSE {})

InitSettle ==
  /\ \E n \in SettleSizes :
       /\ players = [i \in 1..n |-> Triple(i, 1, 1)]
       /\ game_leaderboard \in SettleScores(n)
  /\ leaderboard_prize_pool \in SettlePools
  /\ poolLedger = leaderboard_prize_pool
  /\ earn = [r \in EarnReqs |-> NoEarn]
  /\ create = [c \in CreateReqs |-> NoCreate]
  /\ settle = [s \in Runs |-> NoRun]
  /\ paid = [s \in Runs |-> <<>>]
  /\ view = NoView

NextSettle ==
  \/ CronFire(1)
  \/ SettleZRange(1)
  \/ SettleLoop(1)
  \/ SettleSet(1)

SpecSettle == InitSettle /\ [][NextSettle]_vars

\* SpecQuery: one GET /leaderboard/top-ranking-data, with no writer in
\* progress, on stores of n registered players of which one may have no Rank
\* Store entry (its create stopped between INSERT and ZADD), or with one
\* ranked id that has no row.
QuerySizes == {0, MaxListed}
QueryStores(n) ==
  UNION {{[i \in D |-> Distinct(n + 1)[i]], [i \in D |-> Flat(n + 1)[i]]} :
           D \in {1..n, 1..(n + 1)} \cup {(1..n) \ {k} : k \in 1..n}}
\* The name sets a LIKE pattern may select: those of at most MaxMatch players.
Queries(n) == {names \in SUBSET (1..n) : Cardinality(names) <= MaxMatch}

InitQuery ==
  /\ \E n \in QuerySizes :
       /\ players = [i \in 1..n |-> Triple(i, 1, 1)]
       /\ game_leaderboard \in QueryStores(n)
  /\ leaderboard_prize_pool = 0
  /\ poolLedger = 0
  /\ earn = [r \in EarnReqs |-> NoEarn]
  /\ create = [c \in CreateReqs |-> NoCreate]
  /\ settle = [s \in Runs |-> NoRun]
  /\ paid = [s \in Runs |-> <<>>]
  /\ view = NoView

NextQuery ==
  \/ \E given \in BOOLEAN, names \in Queries(Len(players)) :
       ViewStart(given, names)
  \/ ViewTopSelect
  \/ ViewLike
  \/ \E id \in 1..Len(players) : ViewRank(id)
  \/ \E j \in 1..MaxMatch : SrRank(j)
  \/ \E j \in 1..MaxMatch : SrScore(j)
  \/ \E j \in 1..MaxMatch : SrRange(j)
  \/ \E j \in 1..MaxMatch, index \in 1..6 : SrDetail(j, index)
  \/ ViewRespond

SpecQuery == InitQuery /\ [][NextQuery]_vars

\* SpecEarn: earn requests only, on stores of MaxEarners registered and
\* ranked players (ids of one and of two digits, so that equal scores are
\* ordered by member string and not by number).
EarnScores ==
  {Flat(MaxEarners), Distinct(MaxEarners),
   [i \in 1..MaxEarners |-> Units(100) * (i % 3)],
   [i \in 1..MaxEarners |-> Units(100) * (i \div 4)]}
EarnIds == {0, 2, 9, MaxEarners - 1, MaxEarners + 1}
EarnAmounts == Amounts \cup {0, Units(200)}

InitEarn ==
  /\ players = [i \in 1..MaxEarners |-> Triple(i, 1, 1)]
  /\ game_leaderboard \in EarnScores
  /\ leaderboard_prize_pool = 0
  /\ poolLedger = 0
  /\ earn = [r \in EarnReqs |-> NoEarn]
  /\ create = [c \in CreateReqs |-> NoCreate]
  /\ settle = [s \in Runs |-> NoRun]
  /\ paid = [s \in Runs |-> <<>>]
  /\ view = NoView

NextEarn ==
  \/ \E r \in EarnReqs, playerId \in EarnIds, isNumber \in BOOLEAN,
        amount \in EarnAmounts : EarnStart(r, playerId, isNumber, amount)
  \/ \E r \in EarnReqs : EarnQuery(r)
  \/ \E r \in EarnReqs : EarnZIncrBy(r)
  \/ \E r \in EarnReqs : EarnIncrByFloat(r)

SpecEarn == InitEarn /\ [][NextEarn]_vars

\* SpecSettleFault: as SpecSettle on the smaller stores, with store
\* operations that may reject, and a second tick of the schedule that comes
\* after the first run has returned.
FaultSizes == SettleSizes \ {MaxRanked}

InitSettleFault ==
  /\ InitSettle
  /\ Len(players) \in FaultSizes

NextSettleFault ==
  \/ CronFire(1)
  \/ CronFireCatch(1)
  \/ ~Running(1) /\ CronFire(2)
  \/ ~Running(1) /\ CronFireCatch(2)
  \/ \E s \in Runs : SettleZRange(s)
  \/ \E s \in Runs : SettleLoop(s)
  \/ \E s \in Runs : SettleSet(s)
  \/ \E s \in Runs : SettleCatch(s)

SpecSettleFault == InitSettleFault /\ [][NextSettleFault]_vars

\* SpecEarnFault: as SpecEarn, with store operations that may reject.
NextEarnFault ==
  \/ NextEarn
  \/ \E r \in EarnReqs, message \in MySqlErrors \cup RedisErrors :
       EarnCatch(r, message)

SpecEarnFault == InitEarn /\ [][NextEarnFault]_vars

\* SpecTop: one GET /leaderboard/top-ranking-data, with no writer in
\* progress, on the stores of SpecSettle (up to MaxRanked ranked players),
\* with no query or a query that one name contains.
TopQueries == {{3}, {MaxRanked - 1}}

InitTop ==
  /\ InitSettle
  /\ leaderboard_prize_pool = 0

NextTop ==
  \/ \E given \in BOOLEAN, names \in TopQueries : ViewStart(given, names)
  \/ ViewTopSelect
  \/ ViewLike
  \/ \E id \in 1..Len(players) : ViewRank(id)
  \/ SrRank(1)
  \/ SrScore(1)
  \/ SrRange(1)
  \/ \E index \in 1..6 : SrDetail(1, index)
  \/ ViewRespond

SpecTop == InitTop /\ [][NextTop]_vars

\* SpecQueryTwice: as SpecQuery on the stores where a registered player has
\* no Rank Store entry, with the request sent a second time.
InitQueryTwice ==
  /\ InitQuery
  /\ \E id \in 1..Len(players) : id \notin DOMAIN game_leaderboard

NextQueryTwice ==
  \/ NextQuery
  \/ ViewRepeat

SpecQueryTwice == InitQueryTwice /\ [][NextQueryTwice]_vars

\* SpecSettleLive: one run of the job on the stores of SpecSettle (of the
\* largest store, the one with different scores and a pool of 100), with
\* store operations that may reject; every command the run awaits is
\* eventually answered, with a reply or with a rejection.
InitSettleLive ==
  /\ InitSettle
  /\ Len(players) = MaxRanked =>
       /\ game_leaderboard = Distinct(MaxRanked)
       /\ leaderboard_prize_pool = Units(100)

Answer(s) ==
  \/ SettleZRange(s)
  \/ SettleLoop(s)
  \/ SettleSet(s)
  \/ SettleCatch(s)

NextSettleLive ==
  \/ CronFire(1)
  \/ CronFireCatch(1)
  \/ Answer(1)

SpecSettleLive ==
  InitSettleLive /\ [][NextSettleLive]_vars /\ WF_vars(Answer(1))

\* SpecQueryEarn: one GET /leaderboard/top-ranking-data with a query that
\* matches player 3, or players 3 and 4, of MaxListed ranked players with
\* different scores, while one earn request for one of the two is served; an
\* earning of 100 moves its player one rank up.
RacedQueries == {{3}, {3, 4}}

InitQueryEarn ==
  /\ InitQuery
  /\ Len(players) = MaxListed
  /\ game_leaderboard = [i \in 1..MaxListed |-> Distinct(MaxListed + 1)[i]]

NextQueryEarn ==
  \/ \E names \in RacedQueries : ViewStart(TRUE, names)
  \/ ViewTopSelect
  \/ ViewLike
  \/ \E id \in 1..Len(players) : ViewRank(id)
  \/ \E j \in 1..MaxMatch : SrRank(j)
  \/ \E j \in 1..MaxMatch : SrScore(j)
  \/ \E j \in 1..MaxMatch : SrRange(j)
  \/ \E j \in 1..MaxMatch, index \in 1..6 : SrDetail(j, index)
  \/ ViewRespond
  \/ \E playerId \in {3, 4} : EarnStart(1, playerId, TRUE, Units(100))
  \/ EarnQuery(1)
  \/ EarnZIncrBy(1)
  \/ EarnIncrByFloat(1)

SpecQueryEarn == InitQueryEarn /\ [][NextQueryEarn]_vars

\* =================================================================
\* Properties
\* =================================================================
EarnBusy(r) == earn[r].pc \notin {"idle", "done"}

\* C1 (as claimed): no pool contribution is lost.  Whenever no earning and
\* no settlement run is in progress, the contributions added so far equal the
\* balances the settlement runs read and reset, plus the balance that remains;
\* poolLedger is the first minus the second.
PoolConserved ==
  ((\A s \in Runs : ~Running(s)) /\ (\A r \in EarnReqs : ~EarnBusy(r)))
    => leaderboard_prize_pool = poolLedger

\* C2 (as claimed): at most one settlement run is in progress at any time.
AtMostOneRunning == Cardinality({s \in Runs : Running(s)}) <= 1

\* C3: a well-formed earn request whose playerId has no row in players when
\* the SELECT runs is answered 404 by that step, which writes to no store; a
\* request reaches its writes only for a player that exists, and an answered
\* request takes no further step.
EarnNotFound ==
  [][\A r \in EarnReqs :
       /\ (earn[r].pc = "received" /\ earn'[r] # earn[r]
             /\ earn[r].playerId # 0 /\ earn[r].isNumber
             /\ earn[r].playerId \notin 1..Len(players))
            => /\ earn'[r].pc = "done"
               /\ earn'[r].status = 404
               /\ UNCHANGED <<players, game_leaderboard, leaderboard_prize_pool>>
       /\ earn'[r].pc \in {"zIncrBy", "incrByFloat"}
            => earn'[r].playerId \in 1..Len(players)
       /\ earn[r].pc = "done" => earn'[r] = earn[r]]_vars

\* C3 witness: a request has been answered 404 while every id with a row or a
\* Rank Store entry belongs to a registered player and the pool is empty.
EarnNotFoundSeen ==
  \E r \in EarnReqs :
    /\ earn[r].status = 404
    /\ Len(players) = 1
    /\ DOMAIN game_leaderboard = {1}
    /\ leaderboard_prize_pool = 0

\* C4: the ZINCRBY step of an earning of amount a for player p adds exactly a
\* to p's score (creating the entry with score a), changes no other entry and
\* not the pool; the INCRBYFLOAT step adds a/50 (= a * 0.02) to the pool,
\* changes no score and answers 200; 200 is answered by no other step.
EarnEffect ==
  [][\A r \in EarnReqs :
       LET p == earn[r].playerId
           a == earn[r].amount
       IN
       /\ (earn[r].pc = "zIncrBy" /\ earn'[r] # earn[r])
            => /\ earn'[r].pc = "incrByFloat"
               /\ DOMAIN game_leaderboard' = DOMAIN game_leaderboard \cup {p}
               /\ game_leaderboard'[p] =
                    (IF p \in DOMAIN game_leaderboard
                     THEN game_leaderboard[p] ELSE 0) + a
               /\ \A x \in DOMAIN game_leaderboard \ {p} :
                    game_leaderboard'[x] = game_leaderboard[x]
               /\ leaderboard_prize_pool' = leaderboard_prize_pool
       /\ (earn[r].pc = "incrByFloat" /\ earn'[r] # earn[r])
            => /\ earn'[r].status = 200
               /\ 50 * (leaderboard_prize_pool' - leaderboard_prize_pool) = a
               /\ game_leaderboard' = game_leaderboard
       /\ (earn'[r].status = 200 /\ earn[r].status # 200)
            => earn[r].pc = "incrByFloat"]_vars

\* C4 witness: Ada registered, then earned 100: score 100, rank 1, pool 2.0,
\* with a second player's score untouched.
EarnEffectSeen ==
  /\ Len(players) = 2
  /\ players[1] = Ada
  /\ DOMAIN game_leaderboard = {1, 2}
  /\ game_leaderboard[1] = Units(100)
  /\ game_leaderboard[2] = 0
  /\ zRevRank(game_leaderboard, 1) = 0
  /\ leaderboard_prize_pool = Units(2)
  /\ \E r \in EarnReqs : earn[r].status = 200
  /\ \A r \in EarnReqs : earn[r].status \in {0, 200} /\ ~EarnBusy(r)

\* C5 (as claimed): no step removes a Rank Store entry or lowers its score.
ScoresNeverDecrease ==
  [][\A x \in DOMAIN game_leaderboard :
       /\ x \in DOMAIN game_leaderboard'
       /\ game_leaderboard'[x] >= game_leaderboard[x]]_vars

\* Sum of the first k rewards a run has applied.
RECURSIVE SumPaid(_, _)
SumPaid(seq, k) == IF k = 0 THEN 0 ELSE SumPaid(seq, k - 1) + seq[k].reward

\* y is x * num / den at the model's resolution (rounded down).
IsProduct(y, x, num, den) == den * y <= x * num /\ x * num < den * (y + 1)

\* C6: in a run that read pool balance P, the first, second and third reward
\* applied go to positions 0, 1 and 2 of the snapshot and are P * 0.20,
\* P * 0.15 and P * 0.10 of the balance as read; no more rewards are applied
\* than the snapshot has entries; with scores 500 and 300 and pool 100 the run
\* pays 20.0 and 15.0 and is then through.
TopThreeRewards ==
  \A s \in Runs :
    LET P == settle[s].prizePool
        lb == settle[s].leaderboard
    IN  /\ Len(paid[s]) <= Len(lb)
        /\ Len(paid[s]) = settle[s].i
        /\ \A k \in 1..Len(paid[s]) : paid[s][k].value = lb[k].value
        /\ Len(paid[s]) >= 1 => IsProduct(paid[s][1].reward, P, 20, 100)
        /\ Len(paid[s]) >= 2 => IsProduct(paid[s][2].reward, P, 15, 100)
        /\ Len(paid[s]) >= 3 => IsProduct(paid[s][3].reward, P, 10, 100)
        /\ (settle[s].pc = "set" /\ P = Units(100) /\ Len(lb) = 2
              /\ lb[1].score = Units(500) /\ lb[2].score = Units(300))
            => /\ Len(paid[s]) = 2
               /\ paid[s][1].reward = Units(20)
               /\ paid[s][2].reward = Units(15)

\* C6 witness: the run on scores 500 and 300 with pool 100 has paid 20.0 and
\* 15.0 and is about to reset the pool.
TopThreeRewardsSeen ==
  /\ settle[1].pc = "set"
  /\ settle[1].prizePool = Units(100)
  /\ Len(settle[1].leaderboard) = 2
  /\ game_leaderboard = <<Units(520), Units(315)>>
  /\ paid[1] = <<[value |-> 1, reward |-> Units(20)],
                 [value |-> 2, reward |-> Units(15)]>>

\* C7: every reward from the fourth on is 0.00567 of what remains, that is of
\* the balance as read minus all rewards applied before it in the run; hence,
\* for a balance >= 0, no such reward exceeds the one before it.  At most 100
\* rewards are applied.
DecayingRewards ==
  \A s \in Runs :
    /\ Len(paid[s]) <= 100
    /\ \A k \in 4..Len(paid[s]) :
         IsProduct(paid[s][k].reward,
                   settle[s].prizePool - SumPaid(paid[s], k - 1), 567, 100000)
    /\ settle[s].prizePool >= 0
         => \A k \in 4..(Len(paid[s]) - 1) :
              paid[s][k + 1].reward <= paid[s][k].reward

\* C7 witness: a run on a pool of 100 has paid five entries, the fifth less
\* than the fourth.
DecayingRewardsSeen ==
  /\ settle[1].prizePool = Units(100)
  /\ Len(paid[1]) = 5
  /\ paid[1][4].reward > 0
  /\ paid[1][5].reward < paid[1][4].reward

Answered == view.pc = "done" /\ view.status = 200 /\ view.query.given

Ids(list) == [k \in 1..Len(list) |-> list[k].id]

RECURSIVE NeighbourhoodIds(_)
NeighbourhoodIds(results) ==
  IF results = <<>> THEN <<>>
  ELSE Ids(Head(results).surroundingPlayers.prevPlayers)
       \o Ids(Head(results).surroundingPlayers.nextPlayers)
       \o NeighbourhoodIds(Tail(results))

NoRepeat(ids) == \A a, b \in 1..Len(ids) : a # b => ids[a] # ids[b]

\* C9: a match of the search that has a row in players but no entry in
\* game_leaderboard is returned with ranking null and money 0, and the search
\* has added it to game_leaderboard with score 0.
SearchSelfHeals ==
  Answered =>
    \A id \in view.players :
      view.rank[id] = Null =>
        /\ id \in DOMAIN game_leaderboard
        /\ game_leaderboard[id] = 0
        /\ \E k \in 1..Len(view.searchResults) :
             /\ view.searchResults[k].id = id
             /\ view.searchResults[k].ranking = Null
             /\ view.searchResults[k].money = 0

\* C10 as stated: in one combined response no player id appears more than
\* once across topRankingPlayers and the prevPlayers and nextPlayers lists of
\* all search results.
NoIdTwiceInResponse ==
  Answered =>
    NoRepeat(Ids(view.topRankingPlayers)
             \o NeighbourhoodIds(view.searchResults))

\* C10 amended: in one combined response no player id appears more than once
\* across the search results themselves and the prevPlayers and nextPlayers
\* lists of all of them; topRankingPlayers takes no part in this.
NoIdTwiceInSearch ==
  Answered =>
    NoRepeat(Ids(view.searchResults) \o NeighbourhoodIds(view.searchResults))

\* Two players were matched, the window of the second held an id already
\* included for the first, and both have neighbours in the response.
NoIdTwiceInSearchSeen ==
  /\ Answered
  /\ Len(view.searchResults) = 2
  /\ \E k \in 1..Len(view.sr[2].surroundingPlayers) :
       LET id == view.sr[2].surroundingPlayers[k].value
       IN  \/ id = view.searchResults[1].id
           \/ \E a \in 1..Len(NeighbourhoodIds(<<view.searchResults[1]>>)) :
                NeighbourhoodIds(<<view.searchResults[1]>>)[a] = id
  /\ NeighbourhoodIds(<<view.searchResults[1]>>) # <<>>
  /\ NeighbourhoodIds(<<view.searchResults[2]>>) # <<>>

\* ------------------------------------------------ C11
CreateBusy(c) == create[c].pc \notin {"idle", "done"}

\* No request and no settlement run is in progress.
Quiet ==
  /\ \A r \in EarnReqs : ~EarnBusy(r)
  /\ \A c \in CreateReqs : ~CreateBusy(c)
  /\ \A s \in Runs : ~Running(s)

RankNeverWorsens ==
  [][\A r \in EarnReqs :
       LET p == earn[r].playerId
       IN  (/\ earn[r].pc = "zIncrBy"
            /\ earn'[r] # earn[r]
            /\ earn[r].amount >= 0
            /\ p \in DOMAIN game_leaderboard)
             => /\ zRevRank(game_leaderboard', p)
                     <= zRevRank(game_leaderboard, p)
                /\ \A x \in DOMAIN game_leaderboard \ {p} :
                     /\ game_leaderboard'[x] = game_leaderboard[x]
                     /\ zRevRank(game_leaderboard', x)
                          >= zRevRank(game_leaderboard, x)]_vars

\* C12 witness: with every score 100, player 10 (rank 9 of 11 by member
\* string) has earned 100 and is first.
RankNeverWorsensSeen ==
  \E r \in EarnReqs :
    /\ earn[r].pc = "incrByFloat"
    /\ earn[r].playerId = 10
    /\ earn[r].amount = Units(100)
    /\ zRevRank(Flat(MaxEarners), 10) = 9
    /\ game_leaderboard = zIncrBy(Flat(MaxEarners), Units(100), 10)
    /\ zRevRank(game_leaderboard, 10) = 0

\* ------------------------------------------------ C13
\* C13: the step in which a store operation of a run fails changes neither
\* game_leaderboard (the rewards applied stay) nor leaderboard_prize_pool (no
\* reset), and the run takes no step after it (no further reward); so the
\* next run, after a failure that followed at least one reward, reads the
\* balance the failed run read and, once its loop is over, has paid every
\* entry the failed run paid.
FailedRunStops ==
  /\ [][\A s \in Runs :
          /\ (settle'[s].pc = "failed" /\ settle[s].pc # "failed")
               => /\ game_leaderboard' = game_leaderboard
                  /\ leaderboard_prize_pool' = leaderboard_prize_pool
                  /\ paid'[s] = paid[s]
          /\ settle[s].pc = "failed"
               => settle'[s] = settle[s] /\ paid'[s] = paid[s]]_vars
  /\ []((settle[1].pc = "failed" /\ paid[1] # <<>>)
         => /\ settle[2].pc # "done"
                 => leaderboard_prize_pool = settle[1].prizePool
            /\ settle[2].pc \in {"zRange", "loop", "set"}
                 => settle[2].prizePool = settle[1].prizePool
            /\ settle[2].pc = "set"
                 => \A k \in 1..Len(paid[1]) :
                      \E m \in 1..Len(paid[2]) :
                        /\ paid[2][m].value = paid[1][k].value
                        /\ (k <= 3 /\ m = k)
                             => paid[2][m].reward = paid[1][k].reward)

\* C13 witness: on scores 500 and 300 with pool 100 the first run paid 20.0
\* and 15.0 and failed at the reset; the second run has paid both again.
FailedRunStopsSeen ==
  /\ settle[1].pc = "failed"
  /\ Len(paid[1]) = 2
  /\ settle[2].pc = "set"
  /\ settle[2].prizePool = Units(100)
  /\ leaderboard_prize_pool = Units(100)
  /\ game_leaderboard = <<Units(540), Units(330)>>

\* ------------------------------------------------ C14
\* What the caller of an answered earn request sees.
Outcome(r) == <<earn[r].status, earn[r].message>>

\* C14 (as claimed): the outcome of an earn request whose ZINCRBY was applied
\* and whose INCRBYFLOAT failed differs from the outcome of every earn request
\* that applied neither write.
PartialSuccessSurfaced ==
  \A r1, r2 \in EarnReqs :
    (/\ earn[r1].pc = "done" /\ earn[r1].status = 500
     /\ earn[r1].zIncrByApplied
     /\ earn[r2].pc = "done" /\ earn[r2].status # 200
     /\ ~earn[r2].zIncrByApplied)
      => Outcome(r1) # Outcome(r2)

\* ------------------------------------------------ C15
\* C15: the step that checks a create request whose triple is that of a row
\* of players answers 409 and changes neither players nor game_leaderboard;
\* an answered request takes no further step, and a request goes on to its
\* INSERT only with a triple no row had when it was checked.
CreateConflict ==
  [][\A c \in CreateReqs :
       /\ (/\ create[c].pc = "received"
           /\ create'[c] # create[c]
           /\ \E i \in 1..Len(players) : players[i] = create[c].triple)
            => /\ create'[c].pc = "done"
               /\ create'[c].status = 409
               /\ UNCHANGED <<players, game_leaderboard>>
       /\ create[c].pc = "done" => create'[c] = create[c]
       /\ (create'[c].pc = "insert" /\ create[c].pc # "insert")
            => \A i \in 1..Len(players) : players[i] # create[c].triple]_vars

\* C15 witness: Ada is registered and ranked, and a second registration has
\* been answered 409 with one row and one Rank Store entry still.
CreateConflictSeen ==
  /\ \E c \in CreateReqs : create[c].status = 409
  /\ \E c \in CreateReqs : create[c].status = 201
  /\ players = <<Ada>>
  /\ DOMAIN game_leaderboard = {1}

\* ------------------------------------------------ C16
\* C16: the first step of an earn request with a missing playerId or an
\* amount that is no number, and of a create request with a missing or blank
\* name, country or countryCode, answers 400 whatever the stores hold and
\* changes none of players, game_leaderboard and leaderboard_prize_pool; and
\* 400 is answered by no later step of a request.
InvalidInputRejected ==
  [][/\ \A r \in EarnReqs :
          /\ (/\ earn[r].pc = "received"
              /\ earn'[r] # earn[r]
              /\ (earn[r].playerId = 0 \/ ~earn[r].isNumber))
               => /\ earn'[r].pc = "done"
                  /\ earn'[r].status = 400
                  /\ UNCHANGED <<players, game_leaderboard,
                                 leaderboard_prize_pool>>
          /\ (earn'[r].status = 400 /\ earn[r].status # 400)
               => earn[r].pc = "received"
     /\ \A c \in CreateReqs :
          /\ (/\ create[c].pc = "received"
              /\ create'[c] # create[c]
              /\ (\/ create[c].triple.name = 0
                  \/ create[c].triple.country = 0
                  \/ create[c].triple.countryCode = 0))
               => /\ create'[c].pc = "done"
                  /\ create'[c].status = 400
                  /\ UNCHANGED <<players, game_leaderboard,
                                 leaderboard_prize_pool>>
          /\ (create'[c].status = 400 /\ create[c].status # 400)
               => create[c].pc = "received"]_vars

\* C16 witness: an earn request and a create request have been answered 400
\* and the stores are as the server found them.
InvalidInputRejectedSeen ==
  /\ \E r \in EarnReqs : earn[r].status = 400
  /\ \E c \in CreateReqs : create[c].status = 400
  /\ players = <<>>
  /\ game_leaderboard = <<>>
  /\ leaderboard_prize_pool = 0

\* ------------------------------------------------ C17
Elements(seq) == {seq[k] : k \in 1..Len(seq)}

\* Every element of a neighbourhood list of a result at 0-based rank R is the
\* game_leaderboard entry of the position it is labelled with (ranking - 1),
\* with that entry's score, at a position of from..to.
ListedInWindow(list, from, to) ==
  \A e \in Elements(list) :
    /\ e.ranking - 1 \in from..to
    /\ zRevRank(game_leaderboard, e.id) = e.ranking - 1
    /\ e.money = game_leaderboard[e.id]

\* The members of game_leaderboard at the positions from..to.
Window(from, to) ==
  {x \in DOMAIN game_leaderboard :
     zRevRank(game_leaderboard, x) \in from..to}

Clamped(R) == IF R - 3 < 0 THEN 0 ELSE R - 3

\* C17 as stated: for each search result, at 0-based rank R, prevPlayers holds
\* exactly the entries of the positions max(0, R-3)..R-1 and nextPlayers
\* exactly those of R+1..R+2, each labelled with its position + 1.
NeighbourhoodIsWindow ==
  Answered =>
    \A result \in Elements(view.searchResults) :
      LET R == result.ranking - 1
          prev == result.surroundingPlayers.prevPlayers
          next == result.surroundingPlayers.nextPlayers
      IN  /\ R = zRevRank(game_leaderboard, result.id)
          /\ ListedInWindow(prev, Clamped(R), R - 1)
          /\ ListedInWindow(next, R + 1, R + 2)
          /\ Window(Clamped(R), R - 1) = Elements(Ids(prev))
          /\ Window(R + 1, R + 2) = Elements(Ids(next))

\* C17 amended: prevPlayers holds only entries of the positions
\* max(0, R-3)..R-1 and nextPlayers only those of R+1..R+2, each labelled with
\* its position + 1, and the entry at R is in neither; an entry of the window
\* is in its list unless it has no row in players, is itself a search result,
\* or is in a neighbourhood list of another search result.
NeighbourhoodInWindow ==
  Answered =>
    \A result \in Elements(view.searchResults) :
      LET R == result.ranking - 1
          prev == result.surroundingPlayers.prevPlayers
          next == result.surroundingPlayers.nextPlayers
          others == Elements(view.searchResults) \ {result}
          elsewhere ==
            Elements(Ids(view.searchResults))
              \cup UNION {Elements(NeighbourhoodIds(<<o>>)) : o \in others}
              \cup (DOMAIN game_leaderboard \ (1..Len(players)))
      IN  /\ R = zRevRank(game_leaderboard, result.id)
          /\ ListedInWindow(prev, Clamped(R), R - 1)
          /\ ListedInWindow(next, R + 1, R + 2)
          /\ Window(Clamped(R), R - 1) \ elsewhere \subseteq Elements(Ids(prev))
          /\ Window(R + 1, R + 2) \ elsewhere \subseteq Elements(Ids(next))

\* C17 witness: the only match is at rank 3 of five entries; the entries of
\* positions 0, 1 and 2 are its prevPlayers and that of position 4 is its
\* nextPlayers.
NeighbourhoodInWindowSeen ==
  /\ Answered
  /\ Len(view.searchResults) = 1
  /\ view.searchResults[1].ranking = 4
  /\ Elements(Ids(view.searchResults[1].surroundingPlayers.prevPlayers))
       = Window(0, 2)
  /\ Elements(Ids(view.searchResults[1].surroundingPlayers.nextPlayers))
       = Window(4, 4)
  /\ Cardinality(Window(0, 4)) = 5

\* ------------------------------------------------ C18
\* The handler has answered 200, with or without a query.
Listing == view.pc = "done" /\ view.status = 200

\* C18: topRankingPlayers has min(100, number of ranked entries) elements, in
\* non-increasing order of money; element k has ranking k, which is 1 + the
\* number of game_leaderboard entries ordered before its id (greater score,
\* or equal score and greater member string), and has that id's score.
TopIsRanked ==
  Listing =>
    LET top == view.topRankingPlayers
        n == Cardinality(DOMAIN game_leaderboard)
    IN  /\ Len(top) <= 100
        /\ Len(top) = (IF n < 100 THEN n ELSE 100)
        /\ \A k \in 1..Len(top) :
             /\ top[k].ranking = k
             /\ top[k].id \in DOMAIN game_leaderboard
             /\ top[k].money = game_leaderboard[top[k].id]
             /\ top[k].ranking =
                  1 + Cardinality({x \in DOMAIN game_leaderboard :
                                     Before(game_leaderboard, x, top[k].id)})
             /\ k < Len(top) => top[k].money >= top[k + 1].money

\* C18 witness: of MaxRanked ranked players with different scores the first
\* 100 are listed, player 1 first and player 100 last.
TopIsRankedSeen ==
  /\ Listing
  /\ game_leaderboard = Distinct(MaxRanked)
  /\ Len(view.topRankingPlayers) = 100
  /\ view.topRankingPlayers[1].id = 1
  /\ view.topRankingPlayers[100].id = 100

\* ------------------------------------------------ C19
\* C19: a request made on a store with at least one ranked entry is answered
\* 200; in topRankingPlayers an id with no row in players stands at its
\* position with its score and with null playerName, country and countryCode,
\* and every other element has the fields of its row.
TopKeepsUnknownIds ==
  /\ (view.pc = "done" /\ game_leaderboard # <<>>) => view.status = 200
  /\ Listing =>
       /\ Len(view.topRankingPlayers) = Cardinality(DOMAIN game_leaderboard)
       /\ \A k \in 1..Len(view.topRankingPlayers) :
            LET e == view.topRankingPlayers[k]
            IN  /\ e.ranking = 1 + zRevRank(game_leaderboard, e.id)
                /\ e.money = game_leaderboard[e.id]
                /\ IF e.id \in 1..Len(players)
                   THEN /\ e.playerName = players[e.id].name
                        /\ e.country = players[e.id].country
                        /\ e.countryCode = players[e.id].countryCode
                   ELSE /\ e.playerName = Null
                        /\ e.country = Null
                        /\ e.countryCode = Null

\* C19 witness: with every score equal, the ranked id with no row is listed
\* first with null fields and the registered players follow with theirs.
TopKeepsUnknownIdsSeen ==
  /\ Listing
  /\ game_leaderboard = Flat(MaxListed + 1)
  /\ Len(players) = MaxListed
  /\ view.topRankingPlayers[1].id = MaxListed + 1
  /\ view.topRankingPlayers[1].playerName = Null
  /\ view.topRankingPlayers[1].money = Units(100)
  /\ view.topRankingPlayers[2].playerName = MaxListed

\* ------------------------------------------------ C20
\* C20: no element of a prevPlayers or nextPlayers list has an id with no row
\* in players; every element carries the fields of its row and the ranking of
\* its position in game_leaderboard, also in a window that held such an id.
NeighbourhoodDropsUnknownIds ==
  Answered =>
    \A result \in Elements(view.searchResults) :
      \A e \in Elements(result.surroundingPlayers.prevPlayers)
                 \cup Elements(result.surroundingPlayers.nextPlayers) :
        /\ e.id \in 1..Len(players)
        /\ e.playerName = players[e.id].name
        /\ e.country = players[e.id].country
        /\ e.countryCode = players[e.id].countryCode
        /\ e.ranking = 1 + zRevRank(game_leaderboard, e.id)

\* C20 witness: with every score equal the ranked id with no row is first;
\* the only match is at position 2 and its prevPlayers holds the entry of
\* position 1 alone, labelled 2, and its nextPlayers those of 3 and 4.
NeighbourhoodDropsUnknownIdsSeen ==
  /\ Answered
  /\ game_leaderboard = Flat(MaxListed + 1)
  /\ Len(players) = MaxListed
  /\ Len(view.searchResults) = 1
  /\ view.searchResults[1].ranking = 3
  /\ Len(view.sr[1].surroundingPlayers) = 5
  /\ view.sr[1].surroundingPlayers[1].value = MaxListed + 1
  /\ Len(view.searchResults[1].surroundingPlayers.prevPlayers) = 1
  /\ view.searchResults[1].surroundingPlayers.prevPlayers[1].ranking = 2
  /\ Len(view.searchResults[1].surroundingPlayers.nextPlayers) = 2

\* ------------------------------------------------ C21
\* C21 (as claimed): when the search has been answered a second time, every
\* player the query matched has a game_leaderboard entry and a search result
\* with a non-null ranking, and the one that had no entry has score 0.
SearchedTwiceIsRanked ==
  (Answered /\ view.call = 1) =>
    \A id \in view.players :
      /\ id \in DOMAIN game_leaderboard
      /\ \E k \in 1..Len(view.searchResults) :
           /\ view.searchResults[k].id = id
           /\ view.searchResults[k].ranking >= 1

\* ------------------------------------------------ C22
\* (1 - 0.00567)^k in units of 1/PowScale, by squaring, rounded down (PowLo)
\* and rounded up (PowHi) at every multiplication, so that the power lies
\* between them.
PowScale == 20000

RECURSIVE PowLo(_)
PowLo(k) ==
  IF k = 0 THEN PowScale
  ELSE IF k % 2 = 1 THEN (PowLo(k - 1) * 99433) \div 100000
  ELSE (PowLo(k \div 2) * PowLo(k \div 2)) \div PowScale

RECURSIVE PowHi(_)
PowHi(k) ==
  IF k = 0 THEN PowScale
  ELSE IF k % 2 = 1 THEN ((PowHi(k - 1) * 99433) + 99999) \div 100000
  ELSE ((PowHi(k \div 2) * PowHi(k \div 2)) + PowScale - 1) \div PowScale

\* 0.55 * P * pow / PowScale, rounded down.
Residual(P, pow) == (((55 * P) \div 100) * pow) \div PowScale

\* C22: when the loop of a run that read pool P is over after 100 rewards, P
\* minus the sum of the rewards is 0.55 * P * (1 - 0.00567)^97, to within the
\* rounding of the 100 products (one model unit each) and of the power.
RewardsSumGeometric ==
  (settle[1].pc = "set" /\ Len(paid[1]) = 100) =>
    LET P == settle[1].prizePool
        left == P - SumPaid(paid[1], 100)
        a == Residual(P, PowLo(97))
        b == Residual(P, PowHi(97))
    IN  /\ left >= (IF a < b THEN a ELSE b) - 102
        /\ left <= (IF a < b THEN b ELSE a) + 102

\* C22 witness: a run on MaxRanked players that read a pool of 100 has paid
\* 100 rewards and between 31 and 32 of the pool (31.68) are left over.
RewardsSumGeometricSeen ==
  /\ settle[1].pc = "set"
  /\ Len(paid[1]) = 100
  /\ Len(players) = MaxRanked
  /\ settle[1].prizePool = Units(100)
  /\ settle[1].prizePool - SumPaid(paid[1], 100) > Units(31)
  /\ settle[1].prizePool - SumPaid(paid[1], 100) < Units(32)

\* ------------------------------------------------ C23
\* C23: a run that is in progress eventually is not (its callback has
\* returned, after the reset or after the catch block), and no run applies
\* more than 100 rewards.
RunReturns ==
  /\ Running(1) ~> ~Running(1)
  /\ [](settle[1].i <= 100 /\ Len(paid[1]) <= 100)

\* C23 witness: on MaxRanked ranked players a run has applied 100 rewards and
\* has returned through its catch block, the reset having failed.
RunReturnsSeen ==
  /\ Len(players) = MaxRanked
  /\ settle[1].pc = "failed"
  /\ settle[1].i = 100
  /\ Len(paid[1]) = 100

\* ------------------------------------------------ C24
\* C24 (as claimed): the ZADD with score 0 of a registration never lowers a
\* score: if the member is ranked already when the step runs (an earning for
\* the new id has run since the INSERT), the step leaves its score at least
\* as high as it was.
ZeroInitKeepsScore ==
  [][\A c \in CreateReqs :
       (/\ create[c].pc = "zAdd"
        /\ create'[c].status = 201
        /\ create[c].playerId \in DOMAIN game_leaderboard)
         => game_leaderboard'[create[c].playerId]
              >= game_leaderboard[create[c].playerId]]_vars

\* ------------------------------------------------ C25
\* C25 (as claimed): no two rows of players hold the same (name, country,
\* country_code) triple.
NoDuplicateTriple ==
  \A i \in 1..Len(players) : \A j \in 1..Len(players) :
    players[i] = players[j] => i = j

\* ------------------------------------------------ C26
\* C26: in a run that read a pool balance P >= 0, every reward applied is
\* >= 0, P minus the rewards applied so far is >= 0 after every iteration and
\* is what remainingPrize holds, and the rewards applied never total more
\* than P.
RewardsWithinPool ==
  \A s \in Runs :
    (settle[s].pc \in {"loop", "set"} /\ settle[s].prizePool >= 0) =>
      /\ \A k \in 1..Len(paid[s]) :
           /\ paid[s][k].reward >= 0
           /\ settle[s].prizePool - SumPaid(paid[s], k) >= 0
      /\ settle[s].remainingPrize =
           settle[s].prizePool - SumPaid(paid[s], Len(paid[s]))
      /\ settle[s].remainingPrize >= 0
      /\ SumPaid(paid[s], Len(paid[s])) <= settle[s].prizePool

\* C26 witness: a run that read a pool of 2 has applied 100 rewards, the last
\* of them more than 0, and something of the pool remains.
RewardsWithinPoolSeen ==
  /\ settle[1].pc = "set"
  /\ settle[1].prizePool = Units(2)
  /\ Len(paid[1]) = 100
  /\ paid[1][100].reward > 0
  /\ settle[1].remainingPrize > 0
  /\ settle[1].remainingPrize < Units(1)

\* ------------------------------------------------ C27
\* The ids of a list of prevPlayers or nextPlayers.
ListedIds(list) == {list[k].id : k \in 1..Len(list)}

\* C27: at no point does a callback of getSearchResults hold its own player
\* in its prevPlayers or nextPlayers, and no result of the response lists its
\* own id among its surroundingPlayers, whatever an earning served meanwhile
\* does to the order of game_leaderboard.
NotOwnNeighbour ==
  /\ \A j \in DOMAIN view.sr :
       view.filteredPlayers[j] \notin
         ListedIds(view.sr[j].prevPlayers) \cup ListedIds(view.sr[j].nextPlayers)
  /\ \A a \in 1..Len(view.searchResults) :
       view.searchResults[a].id \notin
         ListedIds(view.searchResults[a].surroundingPlayers.prevPlayers)
           \cup ListedIds(view.searchResults[a].surroundingPlayers.nextPlayers)

\* C27 witness: the response holds a result whose player was read at one rank
\* and then found, in the window read after an earning, at another position
\* than that rank.
NotOwnNeighbourSeen ==
  /\ view.pc = "done"
  /\ view.status = 200
  /\ \E j \in DOMAIN view.sr :
       /\ view.sr[j].pc = "done"
       /\ \E a \in 1..Len(view.searchResults) :
            view.searchResults[a].id = view.filteredPlayers[j]
       /\ \E index \in 1..Len(view.sr[j].surroundingPlayers) :
            /\ view.sr[j].surroundingPlayers[index].value =
                 view.filteredPlayers[j]
            /\ view.sr[j].startRank + index - 1 # view.sr[j].rank

\* ------------------------------------------------ C28
\* The rankings of a list of prevPlayers or nextPlayers ascend.
Ascending(list) ==
  \A k \in 1..(Len(list) - 1) : list[k].ranking < list[k + 1].ranking

\* C28 (as claimed): the prevPlayers and the nextPlayers of every result of
\* the response are in ascending order of ranking.
NeighboursAscend ==
  \A a \in 1..Len(view.searchResults) :
    /\ Ascending(view.searchResults[a].surroundingPlayers.prevPlayers)
    /\ Ascending(view.searchResults[a].surroundingPlayers.nextPlayers)

\* ------------------------------------------------ C29
\* C29 (as claimed): a request served on an empty game_leaderboard is answered
\* 200 with an empty topRankingPlayers.
EmptyStoreListsNothing ==
  (view.pc = "done" /\ game_leaderboard = <<>>) =>
    /\ view.status = 200
    /\ view.topRankingPlayers = <<>>

====
